---- MODULE Spec2Model ----
(***************************************************************************)
(* A model of scripts/data_cleaning.py: the row-repair loader load_csv,    *)
(* the guarded loading of the three input files, the field normalisation   *)
(* (parse_date, price text, customer de-duplication, country remap, age    *)
(* imputation), the two left joins with the derived revenue and profit     *)
(* columns, the audit counts of the cleaning report and the three report   *)
(* files written at the end.                                               *)
(*                                                                         *)
(* Text is a sequence of one-character strings.  Two longer tokens stand    *)
(* for the literal substrings of the fix-up at line 11: "bob.wilson@" and  *)
(* "company.com".  A missing value (np.nan) is NaN in a column of strings, *)
(* NaNText in a column of texts, MissingNum in the age and customer_id     *)
(* columns, NoNum in the money columns and NaT where a date is expected.   *)
(***************************************************************************)
EXTENDS Integers, Sequences, FiniteSets, TLC

VARIABLES
  pc,            \* position of the script
  raw,           \* text of project1_sales_data.csv on disk
  content,       \* load_csv: content
  lines,         \* load_csv: lines
  good_lines,    \* load_csv: good_lines
  idx,           \* load_csv: position of the for loop in lines
  line,          \* load_csv: loop variable
  parts,         \* load_csv: parts
  fixed_line,    \* load_csv: fixed_line
  parser_input,  \* the text handed to pd.read_csv by load_csv
  loaded,        \* the inputs bound so far: sales, products, customers
  stdout,        \* what the script has printed
  written,       \* the report files written by this run
  date_in,       \* parse_date: the value passed in, with what it was written from
  fmt_i,         \* parse_date: position of the loop over the formats
  date_out,      \* parse_date: the value returned
  customers,     \* the customers table
  cust_in,       \* the customers table as read
  median_age,    \* median_age
  report,        \* Records_Affected of the cleaning report (the rows modelled)
  sales_in,      \* the sales table as loaded
  sales,         \* the sales table
  products,      \* the products table
  merged_data    \* merged_data

vars == <<pc, raw, content, lines, good_lines, idx, line, parts, fixed_line,
          parser_input, loaded, stdout, written, date_in, fmt_i, date_out,
          customers, cust_in, median_age, report, sales_in, sales, products,
          merged_data>>

loadVars == <<raw, content, lines, good_lines, idx, line, parts, fixed_line,
              parser_input>>
runVars  == <<loaded, stdout, written>>
dateVars == <<date_in, fmt_i, date_out>>
custVars == <<customers, cust_in, median_age, report>>
mergeVars == <<sales_in, sales, products, merged_data>>

----------------------------------------------------------------------------
(* Bounds of the model *)

MaxCommas == 9      \* most delimiters in a generated data line
MaxDataLines == 2   \* most lines after the header in the sales file
FirstYear == 2023   \* first year of the dates written
NumYears == 2       \* how many years of dates are written
MaxMonth == 13      \* month numbers written run 0..MaxMonth
MaxDay == 32        \* day numbers written run 0..MaxDay
NumIds == 3         \* customer ids run 1..NumIds
MaxCust == 3        \* most rows of the customers file
MaxSales == 2       \* most rows of the sales table

----------------------------------------------------------------------------
(* Text helpers: str.count, str.split, str.join, str.strip, str.replace *)

Range(q) == {q[i] : i \in 1..Len(q)}
Last(q) == q[Len(q)]

NaN == "NaN"
Unset == <<"<unset>">>

Whitespace == {" ", "\t", "\r"}

Count(s, c) == Cardinality({i \in 1..Len(s) : s[i] = c})

RECURSIVE Split(_, _)
Split(s, sep) ==
  IF \A i \in 1..Len(s) : s[i] # sep
  THEN <<s>>
  ELSE LET k == CHOOSE i \in 1..Len(s) :
                  s[i] = sep /\ \A j \in 1..(i - 1) : s[j] # sep
       IN <<SubSeq(s, 1, k - 1)>> \o Split(SubSeq(s, k + 1, Len(s)), sep)

RECURSIVE Join(_, _)
Join(ps, sep) ==
  IF ps = <<>> THEN <<>>
  ELSE IF Len(ps) = 1 THEN ps[1]
  ELSE ps[1] \o <<sep>> \o Join(Tail(ps), sep)

IsBlank(s) == \A i \in 1..Len(s) : s[i] \in Whitespace

RECURSIVE ReplaceBob(_)
ReplaceBob(s) ==
  IF Len(s) < 2 THEN s
  ELSE IF s[1] = "bob.wilson@" /\ s[2] = ","
       THEN <<"bob.wilson@", "company.com">> \o ReplaceBob(SubSeq(s, 3, Len(s)))
       ELSE <<s[1]>> \o ReplaceBob(Tail(s))

----------------------------------------------------------------------------
(* load_csv *)

ExpectedCommas == 7   \* line.count(',') == 7
RepairParts == 9      \* len(parts) == 9
KeepFields == 7       \* parts[:7], parts[7:]

RepairFieldsTailGlued(ps) ==
  SubSeq(ps, 1, KeepFields) \o <<Join(SubSeq(ps, KeepFields + 1, Len(ps)), "")>>

\* parts[:7] + [','.join(parts[7:])]
RepairFields(ps) ==
  SubSeq(ps, 1, KeepFields) \o <<Join(SubSeq(ps, KeepFields + 1, Len(ps)), ",")>>

IsRepairableAtLeast(ps) == Len(ps) >= RepairParts

\* len(parts) == 9
IsRepairable(ps) == Len(ps) = RepairParts

(* The files on disk.  A data line has n delimiters and one of three shapes: *)
(* numbered fields, fields of one space, or numbered fields ending in the    *)
(* known bad value "bob.wilson@,".                                           *)
FieldText(i, shape) ==
  IF shape = "space" THEN <<" ">> ELSE <<ToString(i)>>

DataLine(n, shape) ==
  IF shape = "bob" /\ n >= 1
  THEN Join([i \in 1..n |-> IF i = n THEN <<"bob.wilson@">> ELSE FieldText(i, shape)]
              \o <<<<>>>>, ",")
  ELSE Join([i \in 1..(n + 1) |-> FieldText(i, shape)], ",")

CommaCounts == {0} \cup (6..MaxCommas)

DataLines ==
  {DataLine(n, shape) : n \in CommaCounts, shape \in {"num", "space", "bob"}}
    \cup {<<>>}

Headers ==
  { Join([i \in 1..8 |-> <<"h", ToString(i)>>], ","), <<"h">>, <<>> }

RECURSIVE SeqsUpTo(_, _)
SeqsUpTo(S, n) ==
  IF n = 0 THEN {<<>>}
  ELSE LET shorter == SeqsUpTo(S, n - 1)
       IN shorter \cup {Append(q, x) : q \in shorter, x \in S}

SalesTexts ==
  {Join(<<h>> \o ds, "\n") : h \in Headers, ds \in SeqsUpTo(DataLines, MaxDataLines)}

Idle == <<"<idle>">>

IdleDate  == /\ date_in = Idle /\ fmt_i = 0 /\ date_out = Idle
IdleCust  == /\ customers = <<>> /\ cust_in = <<>> /\ median_age = 0 /\ report = <<>>
IdleMerge ==
  /\ sales_in = <<>> /\ sales = <<>> /\ products = <<>> /\ merged_data = <<>>
IdleLoad  ==
  /\ raw = Unset /\ content = Unset /\ lines = <<>> /\ good_lines = <<>>
  /\ idx = 0 /\ line = Unset /\ parts = <<>> /\ fixed_line = Unset
  /\ parser_input = Unset
IdleRun   == /\ loaded = {} /\ stdout = <<>> /\ written = {}

Init ==
  /\ pc = "start"
  /\ raw \in SalesTexts
  /\ content = Unset /\ lines = <<>> /\ good_lines = <<>>
  /\ idx = 0 /\ line = Unset /\ parts = <<>> /\ fixed_line = Unset
  /\ parser_input = Unset
  /\ IdleRun /\ IdleDate /\ IdleCust /\ IdleMerge

\* line 29
Start ==
  /\ pc = "start"
  /\ stdout' = Append(stdout, "Loading data files...")
  /\ pc' = "open_sales"
  /\ UNCHANGED <<loadVars, loaded, written, dateVars, custVars, mergeVars>>

\* lines 8-14: open and read the file (which may raise), fix-up, split, header
OpenSales ==
  /\ pc = "open_sales"
  /\ \/ /\ pc' = "except"
        /\ UNCHANGED <<content, lines, good_lines, idx>>
     \/ /\ content' = ReplaceBob(raw)
        /\ lines' = Split(content', "\n")
        /\ good_lines' = <<lines'[1]>>
        /\ idx' = 2
        /\ pc' = "load_loop"
  /\ UNCHANGED <<raw, line, parts, fixed_line, parser_input, runVars,
                 dateVars, custVars, mergeVars>>

\* lines 16-25: one pass of the for loop
LoadLine ==
  /\ pc = "load_loop"
  /\ idx <= Len(lines)
  /\ line' = lines[idx]
  /\ idx' = idx + 1
  /\ IF IsBlank(line')
     THEN UNCHANGED <<good_lines, parts, fixed_line>>
     ELSE IF Count(line', ",") = ExpectedCommas
     THEN /\ good_lines' = Append(good_lines, line')
          /\ UNCHANGED <<parts, fixed_line>>
     ELSE /\ parts' = Split(line', ",")
          /\ IF IsRepairable(parts')
             THEN /\ fixed_line' = Join(RepairFields(parts'), ",")
                  /\ good_lines' = Append(good_lines, fixed_line')
             ELSE UNCHANGED <<good_lines, fixed_line>>
  /\ UNCHANGED <<pc, raw, content, lines, parser_input, runVars,
                 dateVars, custVars, mergeVars>>

\* line 27 and line 35: pd.read_csv on the joined lines raises or returns
ParseSales ==
  /\ pc = "load_loop"
  /\ idx > Len(lines)
  /\ parser_input' = Join(good_lines, "\n")
  /\ \/ /\ pc' = "except"
        /\ UNCHANGED loaded
     \/ /\ loaded' = loaded \cup {"sales"}
        /\ pc' = "read_products"
  /\ UNCHANGED <<raw, content, lines, good_lines, idx, line, parts, fixed_line,
                 stdout, written, dateVars, custVars, mergeVars>>

\* line 36
ReadProducts ==
  /\ pc = "read_products"
  /\ \/ /\ pc' = "except"
        /\ UNCHANGED loaded
     \/ /\ loaded' = loaded \cup {"products"}
        /\ pc' = "read_customers"
  /\ UNCHANGED <<loadVars, stdout, written, dateVars, custVars, mergeVars>>

\* lines 37-39
ReadCustomers ==
  /\ pc = "read_customers"
  /\ \/ /\ pc' = "except"
        /\ UNCHANGED <<loaded, stdout>>
     \/ /\ loaded' = loaded \cup {"customers"}
        /\ stdout' = Append(stdout, "Data loaded successfully!")
        /\ pc' = "cleaning"
  /\ UNCHANGED <<loadVars, written, dateVars, custVars, mergeVars>>

ExceptFallsThrough ==
  /\ pc = "except"
  /\ stdout' = Append(stdout, "Error loading data")
  /\ pc' = "cleaning"
  /\ UNCHANGED <<loadVars, loaded, written, dateVars, custVars, mergeVars>>

\* lines 40-42: the handler prints and exits
Except ==
  /\ pc = "except"
  /\ stdout' = Append(stdout, "Error loading data")
  /\ pc' = "halted"
  /\ UNCHANGED <<loadVars, loaded, written, dateVars, custVars, mergeVars>>

(* Lines 45-184: the four stages after loading.  Each prints its banner and  *)
(* then finishes or raises; nothing catches an error raised here.            *)
StageOrder == <<"cleaning", "merging", "analyzing", "reporting", "save_1">>
Banner == [cleaning |-> "Cleaning data...", merging |-> "Merging datasets...",
           analyzing |-> "Analyzing data...", reporting |-> "Generating reports..."]

Stage ==
  /\ \E k \in 1..4 :
       /\ pc = StageOrder[k]
       /\ stdout' = Append(stdout, Banner[pc])
       /\ \/ pc' = StageOrder[k + 1]
          \/ pc' = "crashed"
  /\ UNCHANGED <<loadVars, loaded, written, dateVars, custVars, mergeVars>>

\* lines 189-197: the three to_csv calls in order, then the closing prints
ReportFiles == <<"data_cleaning_report.csv", "business_insights.csv",
                 "cleaned_merged_data.csv">>
SaveOrder == <<"save_1", "save_2", "save_3", "done">>

Save ==
  /\ \E k \in 1..3 :
       /\ pc = SaveOrder[k]
       /\ \/ /\ written' = written \cup {ReportFiles[k]}
             /\ pc' = SaveOrder[k + 1]
             /\ stdout' = IF k = 3 THEN Append(stdout, "Analysis complete!") ELSE stdout
          \/ /\ pc' = "crashed"
             /\ UNCHANGED <<written, stdout>>
  /\ UNCHANGED <<loadVars, loaded, dateVars, custVars, mergeVars>>

Next ==
  \/ Start \/ OpenSales \/ LoadLine \/ ParseSales \/ ReadProducts
  \/ ReadCustomers \/ Except \/ Stage \/ Save

Spec == Init /\ [][Next]_vars

----------------------------------------------------------------------------
(* Vocabulary of the loader's properties, defined on the text itself *)

CommaAt(s, n) ==
  CHOOSE i \in 1..Len(s) :
    s[i] = "," /\ Cardinality({j \in 1..i : s[j] = ","}) = n

\* the text of s after its n-th delimiter (s has at least n)
AfterComma(s, n) == SubSeq(s, CommaAt(s, n) + 1, Len(s))

\* the k-th delimited field of s (s has at least k delimiters)
FieldAt(s, k) ==
  SubSeq(s, IF k = 1 THEN 1 ELSE CommaAt(s, k - 1) + 1, CommaAt(s, k) - 1)

KeptShape(l) ==
  /\ ~IsBlank(l)
  /\ Count(l, ",") \in {ExpectedCommas, ExpectedCommas + 1}

InLoop == pc = "load_loop" /\ line # Unset

\* C1 (as amended): a non-blank data line with exactly one delimiter more than
\* the expected 7 (8 delimiters, 9 pieces) is kept: the repaired field list has
\* 8 elements, the first seven are the line's first seven fields, the eighth is
\* the line's text after the seventh delimiter verbatim, and the line emitted
\* last is the original line character for character.
C1_OneExtraDelimiterRepaired ==
  (InLoop /\ ~IsBlank(line) /\ Count(line, ",") = ExpectedCommas + 1) =>
    /\ Len(RepairFields(parts)) = 8
    /\ \A k \in 1..7 : RepairFields(parts)[k] = FieldAt(line, k)
    /\ RepairFields(parts)[8] = AfterComma(line, 7)
    /\ fixed_line = line
    /\ Last(good_lines) = line
    /\ Len(good_lines) =
         1 + Cardinality({j \in 2..(idx - 1) : KeptShape(lines[j])})

C1_Witness ==
  /\ InLoop
  /\ Count(line, ",") = ExpectedCommas + 1
  /\ Len(good_lines) = 2
  /\ Last(good_lines) = line
  /\ AfterComma(line, 7) = <<"8", ",", "9">>

\* C1 (as stated): a non-blank data line with exactly two delimiters more than
\* the expected 7 is kept and emitted with its first seven fields unchanged and
\* its trailing text after the seventh delimiter verbatim as the last field.
C1_TwoExtraDelimitersRepaired ==
  (InLoop /\ ~IsBlank(line) /\ Count(line, ",") = ExpectedCommas + 2) =>
    /\ Len(good_lines) >= 2
    /\ Count(Last(good_lines), ",") >= 7
    /\ \A k \in 1..7 : FieldAt(Last(good_lines), k) = FieldAt(line, k)
    /\ AfterComma(Last(good_lines), 7) = AfterComma(line, 7)

\* C8: throughout the line pass nothing is printed, and good_lines is the
\* header (whatever its delimiter count) followed, in order, by exactly the
\* non-blank lines read so far that have 7 delimiters (character for
\* character) or the repairable shape (their first seven fields unchanged).
C8_LineFilter ==
  pc = "load_loop" =>
    LET seen == SubSeq(lines, 2, idx - 1)
        expect == SelectSeq(seen, KeptShape)
    IN /\ good_lines[1] = lines[1]
       /\ Len(good_lines) = 1 + Len(expect)
       /\ \A k \in 1..Len(expect) :
            IF Count(expect[k], ",") = ExpectedCommas
            THEN good_lines[k + 1] = expect[k]
            ELSE /\ Count(good_lines[k + 1], ",") >= 7
                 /\ \A f \in 1..7 :
                      FieldAt(good_lines[k + 1], f) = FieldAt(expect[k], f)
       /\ stdout = <<"Loading data files...">>

C8_Witness ==
  /\ pc = "load_loop"
  /\ idx > Len(lines)
  /\ Len(lines) = 3
  /\ Count(lines[1], ",") = 0
  /\ Count(lines[2], ",") = 9
  /\ Count(lines[3], ",") = 7
  /\ good_lines = <<lines[1], lines[3]>>

\* C9: when the header has 8 columns, every data line handed to the CSV
\* parser splits on the delimiter into exactly 8 fields.
C9_EmittedLinesHaveEightFields ==
  (parser_input # Unset /\ Len(Split(lines[1], ",")) = 8) =>
    LET out == Split(parser_input, "\n")
    IN \A k \in 2..Len(out) : Len(Split(out[k], ",")) = 8

AllInputs == {"sales", "products", "customers"}
LoadingAt == {"start", "open_sales", "load_loop", "read_products", "read_customers"}
Banners == {Banner[k] : k \in DOMAIN Banner}

\* C5: a failed load is caught, reported and halts the run with no stage run
\* and no report written; a stage runs or a report is written only after all
\* three inputs were loaded.
C5_LoadFailureBoundary ==
  /\ (pc \in {"except", "halted"}) =>
       /\ loaded # AllInputs
       /\ written = {}
       /\ Range(stdout) \cap Banners = {}
  /\ (pc = "halted") => Last(stdout) = "Error loading data"
  /\ (pc \notin LoadingAt \cup {"except", "halted"}) =>
       /\ loaded = AllInputs
       /\ "Error loading data" \notin Range(stdout)
  /\ (written # {} \/ Range(stdout) \cap Banners # {}) => loaded = AllInputs

C5_Witness ==
  /\ pc = "halted"
  /\ loaded = {"sales", "products"}
  /\ written = {}
  /\ stdout = <<"Loading data files...", "Error loading data">>

----------------------------------------------------------------------------
(* parse_date *)

Digits == {"0", "1", "2", "3", "4", "5", "6", "7", "8", "9"}
DigitVal(c) == CHOOSE v \in 0..9 : ToString(v) = c
AllDigits(t) == \A i \in 1..Len(t) : t[i] \in Digits

RECURSIVE ToNum(_)
ToNum(t) ==
  IF t = <<>> THEN 0
  ELSE 10 * ToNum(SubSeq(t, 1, Len(t) - 1)) + DigitVal(t[Len(t)])

IsLeap(y) == (y % 4 = 0 /\ y % 100 # 0) \/ y % 400 = 0

DaysIn(y, m) ==
  IF m \in {1, 3, 5, 7, 8, 10, 12} THEN 31
  ELSE IF m \in {4, 6, 9, 11} THEN 30
  ELSE IF m = 2 THEN (IF IsLeap(y) THEN 29 ELSE 28)
  ELSE 0

NaT == [y |-> 0, m |-> 0, d |-> 0]        \* np.nan as returned by parse_date
NaNText == <<"<NaN>">>                    \* a missing cell of a text column
ValueError == [y |-> -1, m |-> -1, d |-> -1]

\* str(date_str)
StrOf(v) == IF v = NaNText THEN <<"n", "a", "n">> ELSE v

(* The directives of datetime.strptime as the regular expressions it builds: *)
(* %Y is \d\d\d\d, %m is 1[0-2]|0[1-9]|[1-9], %d is                         *)
(* 3[01]|[12]\d|0[1-9]|[1-9]| [1-9].  A directive yields -1 on no match.     *)
DirY(t) == IF Len(t) = 4 /\ AllDigits(t) THEN ToNum(t) ELSE -1
DirM(t) ==
  IF Len(t) \in {1, 2} /\ AllDigits(t) /\ ToNum(t) \in 1..12 THEN ToNum(t) ELSE -1
DirD(t) ==
  IF Len(t) \in {1, 2} /\ AllDigits(t) /\ ToNum(t) \in 1..31 THEN ToNum(t)
  ELSE IF Len(t) = 2 /\ t[1] = " " /\ t[2] \in Digits \ {"0"} THEN DigitVal(t[2])
  ELSE -1

Directive(c, t) == IF c = "Y" THEN DirY(t) ELSE IF c = "m" THEN DirM(t) ELSE DirD(t)

FormatsMonthFirst ==
  << <<"Y", "-", "m", "-", "d">>, <<"m", "/", "d", "/", "Y">>,
     <<"d", "-", "m", "-", "Y">>, <<"Y", "/", "m", "/", "d">> >>

\* ('%Y-%m-%d', '%d/%m/%Y', '%d-%m-%Y', '%Y/%m/%d')
Formats ==
  << <<"Y", "-", "m", "-", "d">>, <<"d", "/", "m", "/", "Y">>,
     <<"d", "-", "m", "-", "Y">>, <<"Y", "/", "m", "/", "d">> >>

\* datetime.strptime(s, fmt).date(), or ValueError: the whole text must match
\* the format and name a day of the calendar (years start at 1)
Strptime(s, fmt) ==
  LET toks == Split(s, fmt[2])
  IN IF Len(toks) # 3 THEN ValueError
     ELSE LET val == [c \in {"Y", "m", "d"} |->
                        Directive(c, toks[CHOOSE k \in 1..3 : fmt[2 * k - 1] = c])]
          IN IF val["Y"] < 1 \/ val["m"] < 1 \/ val["d"] < 1 THEN ValueError
             ELSE IF val["d"] > DaysIn(val["Y"], val["m"]) THEN ValueError
             ELSE [y |-> val["Y"], m |-> val["m"], d |-> val["d"]]

Pad2(n) == <<ToString(n \div 10), ToString(n % 10)>>
Num2(n, pad) == IF pad \/ n > 9 THEN Pad2(n) ELSE <<ToString(n)>>
Year4(y) == Pad2(y \div 100) \o Pad2(y % 100)

\* the date y-m-d written as YYYY-MM-DD (1), DD/MM/YYYY (2), DD-MM-YYYY (3)
\* or YYYY/MM/DD (4)
WriteDate(y, m, d, k, pad) ==
  LET yy == Year4(y)
      mm == Num2(m, pad)
      dd == Num2(d, pad)
  IN CASE k = 1 -> yy \o <<"-">> \o mm \o <<"-">> \o dd
       [] k = 2 -> dd \o <<"/">> \o mm \o <<"/">> \o yy
       [] k = 3 -> dd \o <<"-">> \o mm \o <<"-">> \o yy
       [] k = 4 -> yy \o <<"/">> \o mm \o <<"/">> \o dd

Years == FirstYear..(FirstYear + NumYears - 1)

WrittenDates ==
  {[text |-> WriteDate(y, m, d, k, pad), fmt |-> k, y |-> y, m |-> m, d |-> d] :
     y \in Years, m \in 0..MaxMonth, d \in 0..MaxDay, k \in 1..4, pad \in BOOLEAN}

\* texts in none of the four formats, and the missing cell
OtherTexts ==
  { NaNText, <<>>, <<"n", "a", "n">>,
    <<"2", "0", "2", "3", ".", "0", "1", ".", "0", "5">>,
    <<"2", "0", "2", "3", "-", "0", "1", "/", "0", "5">>,
    <<"0", "5", "/", "0", "1", "/", "2", "3">>,
    <<"2", "0", "2", "3", "0", "1", "0", "5">>,
    <<"2", "0", "2", "3", "-", "0", "1", "-", "0", "5", " ">>,
    <<"2", "0", "2", "3", "-", "0", "1">>,
    <<"0", "1", "-", "0", "5", "-", "2", "0", "2", "3", "-", "0", "1">>,
    <<"J", "a", "n", " ", "5">> }

OtherDates == {[text |-> t, fmt |-> 0, y |-> 0, m |-> 0, d |-> 0] : t \in OtherTexts}

InitDate ==
  /\ pc = "parse_date"
  /\ date_in \in WrittenDates \cup OtherDates
  /\ fmt_i = 1
  /\ date_out = Idle
  /\ IdleLoad /\ IdleRun /\ IdleCust /\ IdleMerge

\* lines 52-56: one pass of the loop over the formats; only ValueError is caught
TryFormat ==
  /\ pc = "parse_date"
  /\ fmt_i <= Len(Formats)
  /\ LET r == Strptime(StrOf(date_in.text), Formats[fmt_i])
     IN IF r = ValueError
        THEN /\ fmt_i' = fmt_i + 1
             /\ UNCHANGED <<pc, date_out>>
        ELSE /\ date_out' = r
             /\ pc' = "returned"
             /\ UNCHANGED fmt_i
  /\ UNCHANGED <<date_in, loadVars, runVars, custVars, mergeVars>>

\* line 57
ReturnNaN ==
  /\ pc = "parse_date"
  /\ fmt_i > Len(Formats)
  /\ date_out' = NaT
  /\ pc' = "returned"
  /\ UNCHANGED <<date_in, fmt_i, loadVars, runVars, custVars, mergeVars>>

NextDate == TryFormat \/ ReturnNaN

SpecDate == InitDate /\ [][NextDate]_vars

IsCalendarDate(y, m, d) ==
  /\ y \in 1..9999
  /\ m \in 1..12
  /\ d >= 1
  /\ d <= (IF m = 2 THEN (IF y % 4 = 0 /\ (y % 100 # 0 \/ y % 400 = 0) THEN 29 ELSE 28)
           ELSE IF m \in {4, 6, 9, 11} THEN 30 ELSE 31)

\* C3: a calendar date written in the k-th of the four formats is returned as
\* that date, found at the k-th format tried; every other input (a text in
\* none of the formats, a day that is not of the calendar, the missing value)
\* returns the missing value after all four formats were tried; the call
\* always returns.
C3_ParseDate ==
  /\ pc \in {"parse_date", "returned"}
  /\ pc = "returned" =>
       IF date_in.fmt \in 1..4 /\ IsCalendarDate(date_in.y, date_in.m, date_in.d)
       THEN /\ date_out = [y |-> date_in.y, m |-> date_in.m, d |-> date_in.d]
            /\ fmt_i = date_in.fmt
       ELSE /\ date_out = NaT
            /\ fmt_i = 5

C3_Witness ==
  /\ pc = "returned"
  /\ date_in.text = <<"2", "9", "/", "0", "2", "/", "2", "0", "2", "4">>
  /\ date_out = [y |-> 2024, m |-> 2, d |-> 29]
  /\ fmt_i = 2

----------------------------------------------------------------------------
(* Customers: lines 66-72 and the audit counts of lines 145-148.  An age is *)
(* held in half years, so that the median of an even number of whole ages   *)
(* is exact.                                                                 *)

MissingNum == -1

Years2(a) == 2 * a

\* the rows of t at the positions in keep, in order
RECURSIVE Pick(_, _)
Pick(t, keep) ==
  IF t = <<>> THEN <<>>
  ELSE Pick(SubSeq(t, 1, Len(t) - 1), keep)
         \o (IF Len(t) \in keep THEN <<t[Len(t)]>> ELSE <<>>)

DropDuplicatesKeepsAll(t) == t

\* customers.drop_duplicates(subset='customer_id', keep='first')
DropDuplicates(t) ==
  Pick(t, {i \in 1..Len(t) :
             \A j \in 1..(i - 1) : t[j].customer_id # t[i].customer_id})

ReplaceCountryKeepsEmpty(c) ==
  IF c = "United Kingdom" THEN "UK" ELSE c

\* .replace({'United Kingdom': 'UK', '': np.nan}) on one cell
ReplaceCountry(c) ==
  IF c = "United Kingdom" THEN "UK"
  ELSE IF c = "" THEN NaN
  ELSE c

RECURSIVE Insert(_, _)
Insert(q, x) ==
  IF q = <<>> THEN <<x>>
  ELSE IF x <= q[1] THEN <<x>> \o q
  ELSE <<q[1]>> \o Insert(Tail(q), x)

RECURSIVE SortAsc(_)
SortAsc(q) == IF q = <<>> THEN <<>> ELSE Insert(SortAsc(Tail(q)), q[1])

RECURSIVE KnownAges(_)
KnownAges(t) ==
  IF t = <<>> THEN <<>>
  ELSE (IF t[1].age = MissingNum THEN <<>> ELSE <<t[1].age>>) \o KnownAges(Tail(t))

MedianLowerMiddle(t) ==
  LET a == SortAsc(KnownAges(t))
      n == Len(a)
  IN IF n = 0 THEN MissingNum ELSE a[(n + 1) \div 2]

\* customers['age'].median(): missing ages skipped; the middle value, or the
\* mean of the two middle values; missing when no age is known
Median(t) ==
  LET a == SortAsc(KnownAges(t))
      n == Len(a)
  IN IF n = 0 THEN MissingNum
     ELSE IF n % 2 = 1 THEN a[(n + 1) \div 2]
     ELSE (a[n \div 2] + a[n \div 2 + 1]) \div 2

\* .fillna(median_age) on one cell; filling with a missing value fills nothing
FillNa(v, m) == IF v = MissingNum THEN m ELSE v

\* customers.duplicated().sum(): rows equal in every column to an earlier row
DuplicatedCount(t) ==
  Cardinality({i \in 1..Len(t) : \E j \in 1..(i - 1) : t[j] = t[i]})

CustomerIds == 1..NumIds

AgeRows ==
  {[customer_id |-> c, age |-> a, country |-> "USA"] :
     c \in CustomerIds, a \in {MissingNum, Years2(20), Years2(41)}}

CountryRows ==
  {[customer_id |-> c, age |-> Years2(30), country |-> k] :
     c \in CustomerIds, k \in {"United Kingdom", "UK", "", "USA"}}

\* the tables as bound at line 39, before any cleaning
InitTables(salesTables, productTables, customerTables) ==
  /\ pc = "clean_sales"
  /\ sales_in \in salesTables
  /\ sales = sales_in
  /\ products \in productTables
  /\ cust_in \in customerTables
  /\ customers = cust_in
  /\ median_age = MissingNum
  /\ report = <<>>
  /\ merged_data = <<>>
  /\ IdleLoad /\ IdleRun /\ IdleDate

\* line 66
DropDuplicatesStep ==
  /\ pc = "drop_duplicates"
  /\ customers' = DropDuplicates(customers)
  /\ pc' = "replace_country"
  /\ UNCHANGED <<cust_in, median_age, report, loadVars, runVars, dateVars, mergeVars>>

\* lines 67-70
ReplaceCountryStep ==
  /\ pc = "replace_country"
  /\ customers' = [i \in 1..Len(customers) |->
                     [customers[i] EXCEPT !.country = ReplaceCountry(@)]]
  /\ pc' = "median"
  /\ UNCHANGED <<cust_in, median_age, report, loadVars, runVars, dateVars, mergeVars>>

\* line 71
MedianStep ==
  /\ pc = "median"
  /\ median_age' = Median(customers)
  /\ pc' = "fillna"
  /\ UNCHANGED <<customers, cust_in, report, loadVars, runVars, dateVars, mergeVars>>

\* line 72
FillAgeStep ==
  /\ pc = "fillna"
  /\ customers' = [i \in 1..Len(customers) |->
                     [customers[i] EXCEPT !.age = FillNa(@, median_age)]]
  /\ pc' = "merge"
  /\ UNCHANGED <<cust_in, median_age, report, loadVars, runVars, dateVars, mergeVars>>

\* lines 145-148: the Records_Affected of the four Customers rows, which read
\* the customers table as it stands when the report is built
CountRows(t, S) == Cardinality({i \in 1..Len(t) : t[i] \in S})

ReportStep ==
  /\ pc = "report"
  /\ report' =
       [duplicate_records |-> DuplicatedCount(customers),
        missing_age |-> CountRows(customers, {r \in Range(customers) : r.age = MissingNum}),
        missing_country |-> CountRows(customers, {r \in Range(customers) : r.country = NaN}),
        inconsistent_country |->
          CountRows(customers, {r \in Range(customers) : r.country = "United Kingdom"})]
  /\ pc' = "reported"
  /\ UNCHANGED <<customers, cust_in, median_age, loadVars, runVars, dateVars, mergeVars>>

----------------------------------------------------------------------------
(* Sales and products: lines 47-48, 62, 64, and the merge of lines 85-97.    *)
(* Money is held in cents.  A numeric cell of these tables is <<v>>, and a   *)
(* missing one is <<>>.  The order_date and customer_email columns, and the  *)
(* aggregates of lines 104-115, are left out.                                *)

NoNum == <<>>

RECURSIVE LStrip(_)
LStrip(t) ==
  IF t # <<>> /\ t[1] \in Whitespace THEN LStrip(Tail(t)) ELSE t

RECURSIVE RStrip(_)
RStrip(t) ==
  IF t # <<>> /\ t[Len(t)] \in Whitespace THEN RStrip(SubSeq(t, 1, Len(t) - 1)) ELSE t

\* .str.strip() on one cell
Strip(t) == RStrip(LStrip(t))

\* .str.replace(r'[$,€]', '', regex=True) on one cell
StripSymbols(t) ==
  LET IsKept(c) == c \notin {"$", ",", "€"}
  IN SelectSeq(t, IsKept)

\* whether float() takes the text: digits, with at most two decimals here
IsNumberText(t) ==
  LET ps == Split(t, ".")
  IN /\ Len(ps) \in {1, 2}
     /\ ps[1] # <<>> /\ AllDigits(ps[1])
     /\ Len(ps) = 2 => (Len(ps[2]) \in {1, 2} /\ AllDigits(ps[2]))

\* float() of such a text, in cents
ToCents(t) ==
  LET ps == Split(t, ".")
      frac == IF Len(ps) = 1 THEN 0
              ELSE IF Len(ps[2]) = 1 THEN 10 * ToNum(ps[2]) ELSE ToNum(ps[2])
  IN 100 * ToNum(ps[1]) + frac

\* arithmetic on cells: a missing operand gives a missing result
Mul(a, b) == IF a = NoNum \/ b = NoNum THEN NoNum ELSE <<a[1] * b[1]>>
Sub(a, b) == IF a = NoNum \/ b = NoNum THEN NoNum ELSE <<a[1] - b[1]>>

ProfitPerUnit(price, cost, quantity) == Sub(price, cost)

\* (merged_data['price'] - merged_data['cost_price']) * merged_data['quantity']
Profit(price, cost, quantity) == Mul(Sub(price, cost), <<quantity>>)

\* lines 47-48 and 62 on one row
CleanSalesRow(r) ==
  LET price == <<ToCents(StripSymbols(r.price))>>
  IN [r EXCEPT !.product_name = Strip(@), !.price = price]
       @@ [revenue |-> Mul(price, <<r.quantity>>)]

\* pd.merge(sales, products, on=['product_name', 'category'], how='left')
RECURSIVE MergeProducts(_, _)
MergeProducts(s, p) ==
  IF s = <<>> THEN <<>>
  ELSE LET r == s[1]
           IsMatch(q) == q.product_name = r.product_name /\ q.category = r.category
           hits == SelectSeq(p, IsMatch)
       IN (IF hits = <<>>
           THEN <<r @@ [cost_price |-> NoNum]>>
           ELSE [k \in 1..Len(hits) |-> r @@ [cost_price |-> hits[k].cost_price]])
          \o MergeProducts(Tail(s), p)

\* pd.merge(..., customers, on='customer_id', how='left')
RECURSIVE MergeCustomers(_, _)
MergeCustomers(s, c) ==
  IF s = <<>> THEN <<>>
  ELSE LET r == s[1]
           IsMatch(q) == q.customer_id = r.customer_id
           hits == SelectSeq(c, IsMatch)
       IN (IF hits = <<>>
           THEN <<r @@ [age |-> MissingNum, country |-> NaN]>>
           ELSE [k \in 1..Len(hits) |->
                   r @@ [age |-> hits[k].age, country |-> hits[k].country]])
          \o MergeCustomers(Tail(s), c)

PriceTexts ==
  { <<"$", "1", "0", ".", "0", "0">>,
    <<"$", "1", ",", "2", "0", "0", ".", "0", "0">>,
    <<"€", "5", ".", "5">> }

SalesRows ==
  {[product_name |-> n, category |-> "Tools", price |-> p,
    quantity |-> b[1], customer_id |-> b[2]] :
     n \in {<<"W", " ">>, <<"G">>}, p \in PriceTexts,
     b \in {<<2, 1>>, <<3, MissingNum>>}}

\* a price whose symbol is not one of the three stripped
BadPriceRow ==
  [product_name |-> <<"W">>, category |-> "Tools", price |-> <<"£", "3">>,
   quantity |-> 1, customer_id |-> 1]

\* order_id is the position of the row in the file
Numbered(t) == [i \in 1..Len(t) |-> t[i] @@ [order_id |-> i]]

SalesTables ==
  {Numbered(t) : t \in SeqsUpTo(SalesRows, MaxSales) \cup {<<BadPriceRow>>}}

Widget(name, cost) == [product_name |-> name, category |-> "Tools", cost_price |-> cost]

ProductTables ==
  { <<>>,
    <<Widget(<<"W">>, <<600>>)>>,
    <<Widget(<<"W">>, <<600>>), Widget(<<" ", "W">>, <<700>>)>>,
    <<Widget(<<"G">>, NoNum)>>,
    <<Widget(<<"W">>, <<600>>), Widget(<<"G">>, <<500>>)>> }

MergeCustomerTables ==
  { <<>>,
    <<[customer_id |-> 1, age |-> Years2(20), country |-> "United Kingdom"]>>,
    <<[customer_id |-> 1, age |-> Years2(20), country |-> "United Kingdom"],
      [customer_id |-> 1, age |-> MissingNum, country |-> "USA"]>> }

\* lines 47-48 and 62; astype(float) raises on a text that is no number, and
\* nothing catches it
CleanSales ==
  /\ pc = "clean_sales"
  /\ IF \A i \in 1..Len(sales) : IsNumberText(StripSymbols(sales[i].price))
     THEN /\ sales' = [i \in 1..Len(sales) |-> CleanSalesRow(sales[i])]
          /\ pc' = "clean_products"
     ELSE /\ pc' = "crashed"
          /\ UNCHANGED sales
  /\ UNCHANGED <<sales_in, products, merged_data, custVars, loadVars, runVars, dateVars>>

\* line 64
CleanProducts ==
  /\ pc = "clean_products"
  /\ products' = [i \in 1..Len(products) |->
                    [products[i] EXCEPT !.product_name = Strip(@)]]
  /\ pc' = "drop_duplicates"
  /\ UNCHANGED <<sales_in, sales, merged_data, custVars, loadVars, runVars, dateVars>>

\* lines 85-95
MergeStep ==
  /\ pc = "merge"
  /\ merged_data' = MergeCustomers(MergeProducts(sales, products), customers)
  /\ pc' = "profit"
  /\ UNCHANGED <<sales_in, sales, products, custVars, loadVars, runVars, dateVars>>

\* line 97
ProfitStep ==
  /\ pc = "profit"
  /\ merged_data' =
       [i \in 1..Len(merged_data) |->
          merged_data[i] @@
            [profit |-> Profit(merged_data[i].price, merged_data[i].cost_price,
                               merged_data[i].quantity)]]
  /\ pc' = "report"
  /\ UNCHANGED <<sales_in, sales, products, custVars, loadVars, runVars, dateVars>>

NextClean ==
  \/ CleanSales \/ CleanProducts
  \/ DropDuplicatesStep \/ ReplaceCountryStep \/ MedianStep \/ FillAgeStep
  \/ MergeStep \/ ProfitStep \/ ReportStep

SpecAge ==
  InitTables({<<>>}, {<<>>}, SeqsUpTo(AgeRows, MaxCust)) /\ [][NextClean]_vars
SpecCountry ==
  InitTables({<<>>}, {<<>>}, SeqsUpTo(CountryRows, MaxCust)) /\ [][NextClean]_vars
SpecMerge ==
  InitTables(SalesTables, ProductTables, MergeCustomerTables) /\ [][NextClean]_vars

(* Vocabulary of the customers' properties, read off the table as loaded *)

\* positions of the rows that are the first of their customer_id
FirstOfId ==
  {i \in 1..Len(cust_in) :
     \A j \in 1..(i - 1) : cust_in[j].customer_id # cust_in[i].customer_id}

\* the position in cust_in of the k-th de-duplicated customer
OriginOf(k) ==
  CHOOSE i \in FirstOfId : Cardinality({j \in FirstOfId : j <= i}) = k

KnownAt == {i \in FirstOfId : cust_in[i].age # MissingNum}

\* the k-th smallest known age of the de-duplicated customers
KthAge(k) ==
  LET v == CHOOSE i \in KnownAt :
             /\ Cardinality({j \in KnownAt : cust_in[j].age < cust_in[i].age}) < k
             /\ k <= Cardinality({j \in KnownAt : cust_in[j].age <= cust_in[i].age})
  IN cust_in[v].age

\* twice the median: the sum of the lower and the upper middle age
TwiceMedian ==
  LET n == Cardinality(KnownAt)
  IN KthAge((n + 1) \div 2) + KthAge(n \div 2 + 1)

Filled == pc \in {"merge", "profit", "report", "reported"}

AgesFilledWithMedian ==
  /\ Len(customers) = Cardinality(FirstOfId)
  /\ \A k \in 1..Len(customers) :
       /\ customers[k].age # MissingNum
       /\ IF cust_in[OriginOf(k)].age = MissingNum
          THEN 2 * customers[k].age = TwiceMedian
          ELSE customers[k].age = cust_in[OriginOf(k)].age

\* C4 (as amended): when at least one de-duplicated customer has an age, then
\* after the fill no customer has a missing age, every age that was missing is
\* the median of the known ages of the de-duplicated customers, and every age
\* that was present is unchanged.
C4_AgeImputation ==
  (Filled /\ KnownAt # {}) => AgesFilledWithMedian

C4_Witness ==
  /\ Filled
  /\ Len(cust_in) = 3
  /\ Len(customers) = 2
  /\ cust_in[1].age = MissingNum
  /\ customers[1].age = Years2(41)
  /\ cust_in[2].customer_id = cust_in[3].customer_id
  /\ cust_in[2].age = Years2(41)
  /\ cust_in[3].age = Years2(20)

\* C4 (as stated): for every customer table, after the fill no customer has a
\* missing age, every age that was missing is the median, every other unchanged.
C4_NoMissingAgeForEveryTable ==
  Filled => AgesFilledWithMedian

Remapped == pc \in {"median", "fillna", "merge", "profit", "report", "reported"}

\* C6: after the remap a country that was "United Kingdom" is "UK", one that
\* was the empty string is missing, every other is unchanged, and remapping
\* the result again changes nothing.
C6_CountryRemap ==
  Remapped =>
    /\ Len(customers) = Cardinality(FirstOfId)
    /\ \A k \in 1..Len(customers) :
         LET was == cust_in[OriginOf(k)].country
             now == customers[k].country
         IN /\ (was = "United Kingdom") => (now = "UK")
            /\ (was = "") => (now = NaN)
            /\ (was \notin {"United Kingdom", ""}) => (now = was)
            /\ ReplaceCountry(now) = now

C6_Witness ==
  /\ Remapped
  /\ Len(customers) = 3
  /\ cust_in[1].country = "United Kingdom" /\ customers[1].country = "UK"
  /\ cust_in[2].country = "" /\ customers[2].country = NaN
  /\ cust_in[3].country = "UK" /\ customers[3].country = "UK"

\* C10: the audit counts for 'Duplicate records' and 'Inconsistent country
\* names' are 0 whatever the customers file held, being taken from the table
\* after the de-duplication and the remap.
C10_AuditCountsAreZero ==
  pc = "reported" =>
    /\ report.duplicate_records = 0
    /\ report.inconsistent_country = 0

C10_Witness ==
  /\ pc = "reported"
  /\ Len(cust_in) = 3
  /\ cust_in[1] = cust_in[2]
  /\ cust_in[3].country = "United Kingdom"
  /\ cust_in[1].country = "United Kingdom"
  /\ report.duplicate_records = 0
  /\ report.inconsistent_country = 0

(* Vocabulary of the merge's properties, read off the tables as loaded *)

\* what each price text of the sales file says, in cents
Intended(text) ==
  IF text = <<"$", "1", "0", ".", "0", "0">> THEN 1000
  ELSE IF text = <<"$", "1", ",", "2", "0", "0", ".", "0", "0">> THEN 120000
  ELSE IF text = <<"€", "5", ".", "5">> THEN 550
  ELSE -1

Merged == pc \in {"profit", "report", "reported"}
Derived == pc \in {"report", "reported"}

SalesColumns == {"order_id", "product_name", "category", "price", "quantity",
                 "customer_id", "revenue"}

\* C2: the merged table has exactly as many rows as the sales table, and its
\* k-th row is the k-th sales row (with the joined columns added).
C2_MergeKeepsCardinality ==
  Merged =>
    /\ Len(merged_data) = Len(sales)
    /\ \A k \in 1..Len(sales) :
         [c \in SalesColumns |-> merged_data[k][c]] = sales[k]

\* the products that a sales row joins to: equal name (stripped on both
\* sides) and category
MatchesOf(o) ==
  {i \in 1..Len(products) :
     /\ products[i].product_name = Strip(o.product_name)
     /\ products[i].category = o.category}

\* C7: for every merged row, revenue is what the price text says times the
\* quantity; when a product matched, profit is (price - cost_price) * quantity
\* for the cost_price of a matching product (missing when that is missing);
\* when none matched, profit is missing.
C7_RevenueAndProfit ==
  Derived =>
    \A k \in 1..Len(merged_data) :
      LET r == merged_data[k]
          o == sales_in[r.order_id]
          price == Intended(o.price)
      IN /\ r.price = <<price>>
         /\ r.revenue = <<price * o.quantity>>
         /\ IF MatchesOf(o) = {}
            THEN r.cost_price = NoNum /\ r.profit = NoNum
            ELSE /\ \E i \in MatchesOf(o) : r.cost_price = products[i].cost_price
                 /\ r.cost_price # NoNum =>
                      r.profit = <<(price - r.cost_price[1]) * o.quantity>>
                 /\ r.cost_price = NoNum => r.profit = NoNum

\* price "$10.00", quantity 2, cost_price 6.0: revenue 20.0, profit 8.0
C7_Witness ==
  /\ Derived
  /\ Len(merged_data) = 2
  /\ sales_in[1].price = <<"$", "1", "0", ".", "0", "0">>
  /\ sales_in[1].quantity = 2
  /\ merged_data[1].cost_price = <<600>>
  /\ merged_data[1].revenue = <<2000>>
  /\ merged_data[1].profit = <<800>>
  /\ merged_data[2].cost_price = NoNum
  /\ merged_data[2].profit = NoNum

====
